---- MODULE Spec2Model ----
(***************************************************************************)
(* Autopilot enforcement (src/hooks/autopilot/enforcement.ts) and signal   *)
(* detection (src/hooks/autopilot/signals.ts).                             *)
(*                                                                         *)
(* The persisted autopilot state of one working directory is the variable  *)
(* store.  One action, Check, is one call of checkAutopilot: it draws the  *)
(* caller's session id, the session's transcript files and the outcome of  *)
(* the transition operation the call may invoke, and records the call in   *)
(* the variable last.  A call of detectSignal made on its own, on inputs   *)
(* drawn at the start, is recorded in the variable det.                    *)
(***************************************************************************)
EXTENDS Integers, Sequences, FiniteSets, TLC

VARIABLES store, last, det, call

vars == <<store, last, det, call>>

(* ---------------------------------------------------------------------- *)
(* Bounds                                                                  *)
(* ---------------------------------------------------------------------- *)

\* largest max_iterations a run is started with
MaxIterations == 5

(* ---------------------------------------------------------------------- *)
(* Phases, signals, sessions                                               *)
(* ---------------------------------------------------------------------- *)

WorkingPhases == {"expansion", "planning", "execution", "qa", "validation"}

Phases == WorkingPhases \cup {"complete", "failed"}

\* the value of a function that returns null / of an optional that is unset
Null == "null"

\* the value checkAutopilot returns for null
NullResult == [isNull |-> TRUE]

\* an undefined session id (a falsy string, as the empty string is)
NoSession == ""

SessionIds == {"s1", "s2"}

SIGNAL_PATTERNS ==
  {"EXPANSION_COMPLETE", "PLANNING_COMPLETE", "EXECUTION_COMPLETE",
   "QA_COMPLETE", "VALIDATION_COMPLETE", "AUTOPILOT_COMPLETE",
   "TRANSITION_TO_QA", "TRANSITION_TO_VALIDATION"}

\* case folding of a word, as the /i flag of the patterns does
ToUpper(w) ==
  CASE w = "execution_complete" -> "EXECUTION_COMPLETE"
    [] w = "Qa_Complete" -> "QA_COMPLETE"
    [] OTHER -> w

\* position of a working phase in the canonical order
PhaseIndex(p) ==
  CASE p = "expansion" -> 1
    [] p = "planning" -> 2
    [] p = "execution" -> 3
    [] p = "qa" -> 4
    [] p = "validation" -> 5
    [] p = "complete" -> 6
    [] OTHER -> 7

\* a successor table that skips planning
getNextPhase_skip(current) ==
  CASE current = "expansion" -> "execution"
    [] current = "planning" -> "execution"
    [] current = "execution" -> "qa"
    [] current = "qa" -> "validation"
    [] current = "validation" -> "complete"
    [] OTHER -> Null

\* a successor table that sends planning back to expansion
getNextPhase_back(current) ==
  CASE current = "expansion" -> "planning"
    [] current = "planning" -> "expansion"
    [] current = "execution" -> "qa"
    [] current = "qa" -> "validation"
    [] current = "validation" -> "complete"
    [] OTHER -> Null

getNextPhase(current) ==
  CASE current = "expansion" -> "planning"
    [] current = "planning" -> "execution"
    [] current = "execution" -> "qa"
    [] current = "qa" -> "validation"
    [] current = "validation" -> "complete"
    [] OTHER -> Null

getExpectedSignalForPhase(phase) ==
  CASE phase = "expansion" -> "EXPANSION_COMPLETE"
    [] phase = "planning" -> "PLANNING_COMPLETE"
    [] phase = "execution" -> "EXECUTION_COMPLETE"
    [] phase = "qa" -> "QA_COMPLETE"
    [] phase = "validation" -> "VALIDATION_COMPLETE"
    [] OTHER -> Null

(* ---------------------------------------------------------------------- *)
(* Transcript files and signal detection                                   *)
(* ---------------------------------------------------------------------- *)

\* the candidate transcript paths of a session, in order
NumCandidates == 3

Missing == [exists |-> FALSE, readable |-> FALSE, content |-> {}]

Unreadable == [exists |-> TRUE, readable |-> FALSE, content |-> {}]

Readable(text) == [exists |-> TRUE, readable |-> TRUE, content |-> text]

\* the markers a session has written after finishing its first k phases
Emitted(k) ==
  {getExpectedSignalForPhase(p) :
     p \in {q \in WorkingPhases : PhaseIndex(q) <= k}}

\* the texts of a transcript file: the markers of a run as they accumulate,
\* a marker written in lower case, and the marker the continuation message
\* names for the validation phase
Texts ==
  {Emitted(k) : k \in 0..5}
    \cup {Emitted(2) \cup {"execution_complete"},
          Emitted(3) \cup {"Qa_Complete"},
          Emitted(4) \cup {"AUTOPILOT_COMPLETE"}}

\* which candidates are missing (m), unreadable (u), readable without any
\* marker (e) and readable with the text (t)
Layouts ==
  {<<"t", "m", "m">>, <<"u", "t", "m">>, <<"e", "m", "t">>,
   <<"m", "m", "m">>, <<"u", "e", "u">>}

FileOf(kind, text) ==
  CASE kind = "m" -> Missing
    [] kind = "u" -> Unreadable
    [] kind = "e" -> Readable({})
    [] OTHER -> Readable(text)

\* the files of one session at the time of a call
Transcripts ==
  {[i \in 1..NumCandidates |-> FileOf(l[i], t)] : l \in Layouts, t \in Texts}

\* pattern.test(content)
PatternTest(signal, content) == \E w \in content : ToUpper(w) = signal

\* a loop that answers from the first candidate that exists
RECURSIVE DetectFrom_firstExisting(_, _, _)
DetectFrom_firstExisting(i, signal, tr) ==
  IF i > NumCandidates THEN FALSE
  ELSE IF tr[i].exists
       THEN tr[i].readable /\ PatternTest(signal, tr[i].content)
       ELSE DetectFrom_firstExisting(i + 1, signal, tr)

RECURSIVE DetectFrom(_, _, _)
DetectFrom(i, signal, tr) ==
  IF i > NumCandidates THEN FALSE
  ELSE IF tr[i].exists /\ tr[i].readable /\ PatternTest(signal, tr[i].content)
       THEN TRUE
       ELSE DetectFrom(i + 1, signal, tr)

\* tr is the content of the candidate paths of sessionId
detectSignal(sessionId, signal, tr) ==
  IF signal \notin SIGNAL_PATTERNS THEN FALSE
  ELSE DetectFrom(1, signal, tr)

\* line 44: readFileSync raises an error on a file that cannot be read
ReadFails(file) == file.exists /\ ~file.readable

\* a read without the try block around it
ReadErrorCaught_none == FALSE

\* lines 43, 48-50: the read is in a try block whose catch goes on to the
\* next candidate
ReadErrorCaught == TRUE

\* whether the loop over the candidates ends by an error that leaves
\* detectSignal
RECURSIVE DetectThrowsFrom(_, _, _)
DetectThrowsFrom(i, signal, tr) ==
  IF i > NumCandidates THEN FALSE
  ELSE IF ReadFails(tr[i])
       THEN IF ReadErrorCaught THEN DetectThrowsFrom(i + 1, signal, tr)
            ELSE TRUE
  ELSE IF tr[i].exists /\ PatternTest(signal, tr[i].content) THEN FALSE
  ELSE DetectThrowsFrom(i + 1, signal, tr)

detectSignalThrows(sessionId, signal, tr) ==
  IF signal \notin SIGNAL_PATTERNS THEN FALSE
  ELSE DetectThrowsFrom(1, signal, tr)

(* ---------------------------------------------------------------------- *)
(* The persisted record and the operations on it                           *)
(* ---------------------------------------------------------------------- *)

Absent == [exists |-> FALSE]

Record(active, sid, phase, iteration, max) ==
  [exists |-> TRUE, active |-> active, session_id |-> sid, phase |-> phase,
   iteration |-> iteration, max_iterations |-> max,
   originalIdea |-> "idea"]

\* readAutopilotState: the record of the directory, or absent
readAutopilotState(st) == st

\* writeAutopilotState: full overwrite
writeAutopilotState(st, state) == state

\* transitionPhase (setPhase): a field update of the persisted record
transitionPhase(st, newPhase) ==
  IF st.exists THEN [st EXCEPT !.phase = newPhase] ELSE st

\* the number of times transitionPhase writes the record
transitionPhaseWrites(st) == IF st.exists THEN 1 ELSE 0

\* the compound transition execution -> qa; ok is whether its side effect
\* succeeds, and the phase advances only then
transitionRalphToUltraQA(st, ok) ==
  [success |-> ok /\ st.exists,
   writes |-> IF ok /\ st.exists THEN 1 ELSE 0,
   store |-> IF ok THEN transitionPhase(st, "qa") ELSE st]

\* the compound transition qa -> validation
transitionUltraQAToValidation(st, ok) ==
  [success |-> ok /\ st.exists,
   writes |-> IF ok /\ st.exists THEN 1 ELSE 0,
   store |-> IF ok THEN transitionPhase(st, "validation") ELSE st]

\* the finalize operation of the edge validation -> complete
transitionToComplete(st, ok) ==
  [success |-> ok /\ st.exists,
   writes |-> IF ok /\ st.exists THEN 1 ELSE 0,
   store |-> IF ok THEN transitionPhase(st, "complete") ELSE st]

\* getPhasePrompt: the instruction text of a phase, opaque but for its phase
getPhasePrompt(phase) == [promptFor |-> phase]

(* ---------------------------------------------------------------------- *)
(* checkAutopilot                                                          *)
(* ---------------------------------------------------------------------- *)

\* the marker the continuation message names for each phase
ContinuationSignals ==
  [expansion |-> "EXPANSION_COMPLETE", planning |-> "PLANNING_COMPLETE",
   execution |-> "EXECUTION_COMPLETE", qa |-> "QA_COMPLETE",
   validation |-> "AUTOPILOT_COMPLETE"]

ContinuationResult(state) ==
  [shouldBlock |-> TRUE,
   message |-> [kind |-> "continuation",
                phase |-> state.phase,
                iteration |-> state.iteration,
                max_iterations |-> state.max_iterations,
                prompt |-> getPhasePrompt(state.phase),
                signals |-> ContinuationSignals],
   phase |-> state.phase,
   metadata |-> [iteration |-> state.iteration,
                 maxIterations |-> state.max_iterations]]

\* a continuation that leaves the iteration as it was
generateContinuationPrompt_noIncrement(state) ==
  [store |-> writeAutopilotState(state, state),
   result |-> ContinuationResult(state), writes |-> 1]

\* a continuation that writes the record back without its task description
generateContinuationPrompt_dropIdea(state) ==
  LET incremented == [state EXCEPT !.iteration = state.iteration + 1,
                                   !.originalIdea = ""]
  IN [store |-> writeAutopilotState(state, incremented),
      result |-> ContinuationResult(incremented), writes |-> 1]

\* a continuation that is returned but never written
generateContinuationPrompt_noWrite(state) ==
  LET incremented == [state EXCEPT !.iteration = state.iteration + 1]
  IN [store |-> state, result |-> ContinuationResult(incremented),
      writes |-> 0]

\* a continuation that counts the tick twice
generateContinuationPrompt_twice(state) ==
  LET incremented == [state EXCEPT !.iteration = state.iteration + 2]
  IN [store |-> writeAutopilotState(state, incremented),
      result |-> ContinuationResult(incremented), writes |-> 1]

\* state is the in-memory record; the value is the new persisted state, the
\* result returned and the number of writes of the record
generateContinuationPrompt(state) ==
  LET incremented == [state EXCEPT !.iteration = state.iteration + 1]
  IN [store |-> writeAutopilotState(state, incremented),
      result |-> ContinuationResult(incremented), writes |-> 1]

MaxIterationsResult(state) ==
  [shouldBlock |-> FALSE,
   message |-> [kind |-> "stopped", max_iterations |-> state.max_iterations],
   phase |-> "failed"]

CompleteResult ==
  [shouldBlock |-> FALSE, message |-> [kind |-> "complete"],
   phase |-> "complete"]

FailedResult ==
  [shouldBlock |-> FALSE, message |-> [kind |-> "failed"], phase |-> "failed"]

\* a session check that lets every caller through
SessionMismatch_never(state, sessionId) == FALSE

\* line 68: the record is bound to another session than the caller's
SessionMismatch(state, sessionId) ==
  /\ state.session_id # NoSession
  /\ sessionId # NoSession
  /\ state.session_id # sessionId

\* a ceiling that is reached one tick late
CeilingReached_late(state) == state.iteration > state.max_iterations

\* line 73: the safety limit
CeilingReached(state) == state.iteration >= state.max_iterations

\* r with n more writes of the record
AddWrites(r, n) == [r EXCEPT !.writes = @ + n]

\* a continuation after a transition from the record read at the start
ContinueAfterTransition_stale(st, state) == generateContinuationPrompt(state)

\* a continuation after a transition that counts the new phase from zero
ContinueAfterTransition_reset(st, state) ==
  LET newState == readAutopilotState(st)
  IN IF newState.exists
     THEN generateContinuationPrompt([newState EXCEPT !.iteration = 0])
     ELSE generateContinuationPrompt(state)

\* lines 128-137: reload after a transition and continue from the reloaded
\* record, or from the record read at the start when the reload is absent
ContinueAfterTransition(st, state) ==
  LET newState == readAutopilotState(st)
  IN IF newState.exists
     THEN generateContinuationPrompt(newState)
     ELSE generateContinuationPrompt(state)

\* every edge taken as a plain field update, the terminal one included
SignalDetected_allSimple(st, state, ok) ==
  LET nextPhase == getNextPhase(state.phase)
  IN IF nextPhase = Null THEN generateContinuationPrompt(state)
     ELSE AddWrites(ContinueAfterTransition(transitionPhase(st, nextPhase),
                                            state),
                    transitionPhaseWrites(st))

\* the outcome of a compound transition not looked at
SignalDetected_ignoreFailure(st, state, ok) ==
  LET nextPhase == getNextPhase(state.phase)
  IN IF nextPhase = Null THEN generateContinuationPrompt(state)
     ELSE IF nextPhase = "complete"
     THEN [store |-> transitionToComplete(st, ok).store,
           result |-> CompleteResult,
           writes |-> transitionToComplete(st, ok).writes]
     ELSE AddWrites(ContinueAfterTransition(transitionPhase(st, nextPhase),
                                            state),
                    transitionPhaseWrites(st))

\* lines 102-134: the signal of the phase was detected
SignalDetected(st, state, ok) ==
  LET nextPhase == getNextPhase(state.phase)
  IN IF nextPhase = Null THEN generateContinuationPrompt(state)
     ELSE IF state.phase = "execution" /\ nextPhase = "qa"
     THEN LET r == transitionRalphToUltraQA(st, ok)
          IN IF ~r.success
             THEN generateContinuationPrompt(state)
             ELSE AddWrites(ContinueAfterTransition(r.store, state), r.writes)
     ELSE IF state.phase = "qa" /\ nextPhase = "validation"
     THEN LET r == transitionUltraQAToValidation(st, ok)
          IN IF ~r.success
             THEN generateContinuationPrompt(state)
             ELSE AddWrites(ContinueAfterTransition(r.store, state), r.writes)
     ELSE IF nextPhase = "complete"
     THEN [store |-> transitionToComplete(st, ok).store,
           result |-> CompleteResult,
           writes |-> transitionToComplete(st, ok).writes]
     ELSE AddWrites(ContinueAfterTransition(transitionPhase(st, nextPhase),
                                            state),
                    transitionPhaseWrites(st))

\* a check of the record that forgets the active flag
NotActive_missingOnly(state) == ~state.exists

\* line 63: no record, or a record that is not active
NotActive(state) == ~state.exists \/ ~state.active

\* a signal check that does not ask for a session id
SignalSeen_anySession(state, sessionId, tr) ==
  LET expectedSignal == getExpectedSignalForPhase(state.phase)
  IN expectedSignal # Null /\ detectSignal(sessionId, expectedSignal, tr)

\* lines 100-101: the phase has a signal, the caller gave a session id and
\* the signal is detected in that session's transcript
SignalSeen(state, sessionId, tr) ==
  LET expectedSignal == getExpectedSignalForPhase(state.phase)
  IN /\ expectedSignal # Null
     /\ sessionId # NoSession
     /\ detectSignal(sessionId, expectedSignal, tr)

\* lines 100-101: the call of detectSignal is made and ends by an error
SignalCheckThrows(state, sessionId, tr) ==
  LET expectedSignal == getExpectedSignalForPhase(state.phase)
  IN /\ expectedSignal # Null
     /\ sessionId # NoSession
     /\ detectSignalThrows(sessionId, expectedSignal, tr)

\* an error that leaves checkAutopilot, which has no handler of its own
Thrown == [thrown |-> TRUE]

\* lines 63-137: the decision on the record state that line 60 read, st
\* being the persisted state at the time the decision acts on it
checkAutopilotFrom(state, st, sessionId, tr, ok) ==
  IF NotActive(state)
  THEN [store |-> st, result |-> NullResult, writes |-> 0]
  ELSE IF SessionMismatch(state, sessionId)
  THEN [store |-> st, result |-> NullResult, writes |-> 0]
  ELSE IF CeilingReached(state)
  THEN [store |-> transitionPhase(st, "failed"),
        result |-> MaxIterationsResult(state),
        writes |-> transitionPhaseWrites(st)]
  ELSE IF state.phase = "complete"
  THEN [store |-> st, result |-> CompleteResult, writes |-> 0]
  ELSE IF state.phase = "failed"
  THEN [store |-> st, result |-> FailedResult, writes |-> 0]
  ELSE IF SignalCheckThrows(state, sessionId, tr)
  THEN [store |-> st, result |-> Thrown, writes |-> 0]
  ELSE IF SignalSeen(state, sessionId, tr)
  THEN SignalDetected(st, state, ok)
  ELSE generateContinuationPrompt(state)

\* st is the persisted state, sessionId the caller's session (or NoSession),
\* tr the transcript files of that session, ok the outcome of the
\* transition operation the call invokes, if any
checkAutopilot(st, sessionId, tr, ok) ==
  checkAutopilotFrom(readAutopilotState(st), st, sessionId, tr, ok)

(* ---------------------------------------------------------------------- *)
(* The state machine                                                       *)
(* ---------------------------------------------------------------------- *)

\* the record a run starts with
InitialRecords ==
  {Record(a, sid, "expansion", 0, max) :
     a \in BOOLEAN, sid \in {NoSession, "s1"}, max \in 1..MaxIterations}

\* last before any call
NoCall ==
  [called |-> FALSE, sessionId |-> NoSession, signals |-> {}, ok |-> FALSE,
   readError |-> FALSE, pre |-> Absent, result |-> NullResult, writes |-> 0]

\* det when detectSignal is not called on its own
NoDetect ==
  [called |-> FALSE, sessionId |-> NoSession, signal |-> Null,
   tr |-> [i \in 1..NumCandidates |-> Missing], result |-> FALSE,
   threw |-> FALSE]

\* call when no call of checkAutopilot is under way
NoCheck ==
  [pc |-> "idle", sessionId |-> NoSession,
   tr |-> [i \in 1..NumCandidates |-> Missing], ok |-> FALSE,
   state |-> Absent, writes |-> 0, cancelled |-> FALSE]

Init ==
  /\ store \in {Absent} \cup InitialRecords
  /\ last = NoCall
  /\ det = NoDetect
  /\ call = NoCheck

\* the signals detectable in the files of the caller's session
Detectable(sessionId, tr) ==
  {s \in SIGNAL_PATTERNS : detectSignal(sessionId, s, tr)}

\* one call of checkAutopilot; last keeps the call's inputs, the persisted
\* state it found, its result and the number of times it wrote the record;
\* of the transcript it keeps the signals detectable in it and whether one
\* of its files cannot be read
Check(sessionId, tr, ok) ==
  LET r == checkAutopilot(store, sessionId, tr, ok)
  IN /\ store' = r.store
     /\ last' = [called |-> TRUE, sessionId |-> sessionId,
                 signals |-> Detectable(sessionId, tr),
                 readError |-> \E i \in 1..NumCandidates : ReadFails(tr[i]),
                 ok |-> ok, pre |-> store, result |-> r.result,
                 writes |-> r.writes]
     /\ det' = det
     /\ call' = call

Next ==
  \E sessionId \in {NoSession} \cup SessionIds, tr \in Transcripts,
     ok \in BOOLEAN :
    Check(sessionId, tr, ok)

Spec == Init /\ [][Next]_vars

\* the transcripts of a session that writes its markers, as its phases
\* end, to its first candidate only
LiveTranscripts ==
  {[i \in 1..NumCandidates |->
      IF i = 1 THEN Readable(Emitted(k)) ELSE Missing] : k \in 0..5}

\* the calls of the run's session, with or without its session id
LiveNext ==
  \E sessionId \in {NoSession, "s1"}, tr \in LiveTranscripts, ok \in BOOLEAN :
    Check(sessionId, tr, ok)

\* a call the controller does not short-circuit
EngagedCheck ==
  /\ LiveNext
  /\ last'.result # NullResult

\* the host calls check at every stop event of the run's session, and a
\* blocked stop is followed by another one
LiveSpec == Init /\ [][LiveNext]_vars /\ WF_vars(EngagedCheck)

\* the texts of a file detectSignal is called on: no marker, a marker as
\* it is spelled, in another case, and two markers
DetectTexts ==
  {{}, {"QA_COMPLETE"}, {"Qa_Complete"}, {"execution_complete"},
   {"AUTOPILOT_COMPLETE"}, {"EXECUTION_COMPLETE", "QA_COMPLETE"}}

\* a candidate is missing, or it exists with a text that can or cannot be
\* read
DetectFiles ==
  {Missing}
    \cup {[exists |-> TRUE, readable |-> r, content |-> t] :
            r \in BOOLEAN, t \in DetectTexts}

\* the inputs of a call of detectSignal
DetectInit ==
  /\ store = Absent
  /\ last = NoCall
  /\ call = NoCheck
  /\ det \in {[NoDetect EXCEPT !.sessionId = sid, !.signal = sig, !.tr = tr] :
               sid \in SessionIds, sig \in SIGNAL_PATTERNS,
               tr \in [1..NumCandidates -> DetectFiles]}

\* the call of detectSignal on the inputs drawn
Detect ==
  /\ ~det.called
  /\ det' = [det EXCEPT
               !.called = TRUE,
               !.result = detectSignal(det.sessionId, det.signal, det.tr),
               !.threw = detectSignalThrows(det.sessionId, det.signal, det.tr)]
  /\ UNCHANGED <<store, last, call>>

DetectSpec == DetectInit /\ [][Detect]_vars

\* a call by the bound session whose transcript holds the marker of the
\* phase the record is in, every transition operation succeeding
SignalledCheck ==
  \E tr \in LiveTranscripts :
    /\ (store.exists /\ store.phase \in WorkingPhases) =>
         getExpectedSignalForPhase(store.phase) \in Detectable("s1", tr)
    /\ Check("s1", tr, TRUE)

\* a run whose session signals the end of every phase before it stops; the
\* host calls check at every stop event
SignalledSpec == Init /\ [][SignalledCheck]_vars /\ WF_vars(SignalledCheck)

\* lines 105-126: the transition operation of the edge out of the phase of
\* state, applied to the persisted state st
TransitionOf(st, state, ok) ==
  LET nextPhase == getNextPhase(state.phase)
  IN IF state.phase = "execution" /\ nextPhase = "qa"
     THEN transitionRalphToUltraQA(st, ok)
     ELSE IF state.phase = "qa" /\ nextPhase = "validation"
     THEN transitionUltraQAToValidation(st, ok)
     ELSE [success |-> TRUE, writes |-> transitionPhaseWrites(st),
           store |-> transitionPhase(st, nextPhase)]

\* the call gets to the reload of line 129: it is not ended by one of the
\* returns of lines 63-97, the signal of the phase is detected, the edge
\* does not land on complete and its operation does not report failure
ReachesReload(state, st, sessionId, tr, ok) ==
  /\ ~NotActive(state)
  /\ ~SessionMismatch(state, sessionId)
  /\ ~CeilingReached(state)
  /\ state.phase \in WorkingPhases
  /\ ~SignalCheckThrows(state, sessionId, tr)
  /\ SignalSeen(state, sessionId, tr)
  /\ getNextPhase(state.phase) \notin {Null, "complete"}
  /\ TransitionOf(st, state, ok).success

\* line 60: a call of checkAutopilot begins and reads the record
BeginCheck(sessionId, tr, ok) ==
  /\ call.pc = "idle"
  /\ call' = [pc |-> "loaded", sessionId |-> sessionId, tr |-> tr, ok |-> ok,
              state |-> readAutopilotState(store), writes |-> 0,
              cancelled |-> FALSE]
  /\ UNCHANGED <<store, last, det>>

\* lines 105-126: the call applies the transition that leads to the reload
Transition ==
  /\ call.pc = "loaded"
  /\ ReachesReload(call.state, store, call.sessionId, call.tr, call.ok)
  /\ LET r == TransitionOf(store, call.state, call.ok)
     IN /\ store' = r.store
        /\ call' = [call EXCEPT !.pc = "transitioned", !.writes = r.writes]
  /\ UNCHANGED <<last, det>>

\* what last keeps of a call that ends with r
EndOfCall(r) ==
  [called |-> TRUE, sessionId |-> call.sessionId,
   signals |-> Detectable(call.sessionId, call.tr),
   readError |-> \E i \in 1..NumCandidates : ReadFails(call.tr[i]),
   ok |-> call.ok, pre |-> call.state, result |-> r.result,
   writes |-> r.writes]

\* lines 129-137: the call reloads the record and returns its continuation
Reload ==
  /\ call.pc = "transitioned"
  /\ LET r == AddWrites(ContinueAfterTransition(store, call.state),
                        call.writes)
     IN /\ store' = r.store
        /\ last' = EndOfCall(r)
  /\ call' = [call EXCEPT !.pc = "idle"]
  /\ det' = det

\* every other path of the call, from the record it read to its return
Return ==
  /\ call.pc = "loaded"
  /\ ~ReachesReload(call.state, store, call.sessionId, call.tr, call.ok)
  /\ LET r == checkAutopilotFrom(call.state, store, call.sessionId, call.tr,
                                 call.ok)
     IN /\ store' = r.store
        /\ last' = EndOfCall(r)
  /\ call' = [call EXCEPT !.pc = "idle"]
  /\ det' = det

\* the external cancel operation deletes the record, at any time
Cancel ==
  /\ store.exists
  /\ store' = Absent
  /\ call' = [call EXCEPT !.cancelled = (call.pc # "idle") \/ call.cancelled]
  /\ UNCHANGED <<last, det>>

CancelNext ==
  \/ \E sessionId \in {NoSession, "s1"}, tr \in LiveTranscripts,
        ok \in BOOLEAN :
       BeginCheck(sessionId, tr, ok)
  \/ Transition
  \/ Reload
  \/ Return
  \/ Cancel

\* calls of checkAutopilot, one at a time, and a cancel that can come
\* between the steps of a call
CancelSpec == Init /\ [][CancelNext]_vars

(* ---------------------------------------------------------------------- *)
(* Properties                                                              *)
(* ---------------------------------------------------------------------- *)

\* the last call found an active record and was not short-circuited as a
\* call of a foreign session
Engaged ==
  /\ last.called
  /\ last.pre.exists
  /\ last.pre.active
  /\ ~(/\ last.pre.session_id # NoSession
       /\ last.sessionId # NoSession
       /\ last.pre.session_id # last.sessionId)

BelowCeiling == last.pre.iteration < last.pre.max_iterations

\* the caller gave a session id and the marker of the phase the call found
\* is in that session's transcript
ExpectedDetected ==
  /\ last.sessionId # NoSession
  /\ getExpectedSignalForPhase(last.pre.phase) \in last.signals

\* the canonical order, as a table of its own
CanonicalNext(p, q) ==
  <<p, q>> \in {<<"expansion", "planning">>, <<"planning", "execution">>,
                <<"execution", "qa">>, <<"qa", "validation">>,
                <<"validation", "complete">>}

\* the edge out of the phase found is compound and its operation failed
CompoundFailed ==
  /\ last.pre.phase \in {"execution", "qa"}
  /\ ~last.ok

\* C1: a call of check leaves the persisted phase as it was, moves it one
\* step along expansion -> planning -> execution -> qa -> validation ->
\* complete, or sets it to failed from a working phase; a record that is
\* complete or failed keeps its phase.
C1_PhaseSteps ==
  (last.called /\ last.pre.exists) =>
    /\ store.exists
    /\ \/ store.phase = last.pre.phase
       \/ CanonicalNext(last.pre.phase, store.phase)
       \/ (store.phase = "failed" /\ last.pre.phase \in WorkingPhases)

\* a call took the last step of the canonical order, after four calls had
\* taken the steps before it
C1_Witness ==
  /\ Engaged
  /\ last.pre.phase = "validation"
  /\ store.phase = "complete"
  /\ store.iteration = 4

\* C2: a call that finds iteration >= max_iterations on an active record
\* (and is not a foreign session's) sets the persisted phase to failed and
\* returns block false, phase failed and the notice naming max_iterations,
\* whatever the transcript holds.
C2_CeilingForcesFailed ==
  (Engaged /\ ~BelowCeiling) =>
    /\ store = [last.pre EXCEPT !.phase = "failed"]
    /\ last.result =
         [shouldBlock |-> FALSE,
          message |-> [kind |-> "stopped",
                       max_iterations |-> last.pre.max_iterations],
          phase |-> "failed"]

\* the ceiling was hit in a working phase whose marker was in the transcript
C2_Witness ==
  /\ Engaged
  /\ ~BelowCeiling
  /\ last.pre.phase \in WorkingPhases
  /\ ExpectedDetected
  /\ last.ok
  /\ store.phase = "failed"

\* C3: a call whose session id differs from the session id the record is
\* bound to returns absent and leaves the persisted record as it was.
C3_ForeignSessionNoEffect ==
  (/\ last.called
   /\ last.pre.exists
   /\ last.pre.session_id # NoSession
   /\ last.sessionId # NoSession
   /\ last.sessionId # last.pre.session_id) =>
    /\ last.result = NullResult
    /\ store = last.pre

\* a foreign session called on an active record below the ceiling whose
\* phase marker is in the caller's transcript
C3_Witness ==
  /\ last.called
  /\ last.pre.exists
  /\ last.pre.active
  /\ last.pre.session_id = "s1"
  /\ last.sessionId = "s2"
  /\ last.pre.phase = "planning"
  /\ last.pre.iteration = 1
  /\ BelowCeiling
  /\ "PLANNING_COMPLETE" \in last.signals
  /\ last.result = NullResult
  /\ store = last.pre

\* C4 as stated: once session_id is set, every call that does not carry
\* the bound session id, a call with no session id included, leaves the
\* persisted record as it was.
C4_OnlyBoundSessionMutates ==
  (/\ last.called
   /\ last.pre.exists
   /\ last.pre.session_id # NoSession
   /\ last.sessionId # last.pre.session_id) =>
    store = last.pre

\* C4 amended: once session_id is set, a call that changes the persisted
\* record carries the bound session id or no session id at all, and a call
\* with no session id changes nothing but the iteration (one more) or the
\* phase (to failed, at the ceiling).
C4_OnlyBoundOrAnonymousMutates ==
  (/\ last.called
   /\ last.pre.exists
   /\ last.pre.session_id # NoSession
   /\ store # last.pre) =>
    /\ last.sessionId \in {last.pre.session_id, NoSession}
    /\ last.sessionId = NoSession =>
         \/ store = [last.pre EXCEPT !.iteration = last.pre.iteration + 1]
         \/ store = [last.pre EXCEPT !.phase = "failed"]

\* a call with no session id changed a record bound to s1
C4_Witness ==
  /\ last.called
  /\ last.pre.exists
  /\ last.pre.session_id = "s1"
  /\ last.sessionId = NoSession
  /\ store # last.pre

\* C5 as stated: with no signal in the transcript, a call on an active
\* record in a working phase leaves the phase and adds exactly 1 to the
\* iteration.
C5_NoSignalContinues ==
  (/\ Engaged
   /\ last.pre.phase \in WorkingPhases
   /\ last.signals = {}) =>
    /\ store.phase = last.pre.phase
    /\ store.iteration = last.pre.iteration + 1

\* C5 amended: with no signal in the transcript, a call on an active record
\* in a working phase with iteration < max_iterations leaves the phase and
\* adds exactly 1 to the iteration.
C5_NoSignalContinuesBelowCeiling ==
  (/\ Engaged
   /\ last.pre.phase \in WorkingPhases
   /\ BelowCeiling
   /\ last.signals = {}) =>
    /\ store = [last.pre EXCEPT !.iteration = last.pre.iteration + 1]
    /\ last.result.shouldBlock
    /\ last.result.phase = last.pre.phase

\* the third call in a row without a signal, in the phase the run began in
C5_Witness ==
  /\ Engaged
  /\ last.pre.phase = "expansion"
  /\ BelowCeiling
  /\ last.signals = {}
  /\ last.pre.iteration = 2
  /\ store.iteration = 3

\* the call found a working phase below the ceiling, its marker was
\* detected and the transition out of the phase succeeded
TransitionSucceeded ==
  /\ Engaged
  /\ BelowCeiling
  /\ last.pre.phase \in WorkingPhases
  /\ ExpectedDetected
  /\ last.pre.phase \in {"execution", "qa", "validation"} => last.ok

\* C6: for each working phase P, after a call by the session in which the
\* marker of P is detected and the transition succeeds, the persisted phase
\* is the successor of P, and a continuation returned by the call has the
\* phase, the prompt and the iteration of the record as persisted after the
\* transition.
C6_TransitionThenFresh ==
  TransitionSucceeded =>
    /\ CanonicalNext(last.pre.phase, store.phase)
    /\ last.result.phase = store.phase
    /\ last.result.shouldBlock =>
         /\ last.result.message.phase = store.phase
         /\ last.result.message.prompt = getPhasePrompt(store.phase)
         /\ last.result.message.iteration = store.iteration
         /\ last.result.metadata.iteration = store.iteration
         /\ store = [last.pre EXCEPT !.phase = store.phase,
                                     !.iteration = last.pre.iteration + 1]

\* the compound transition execution -> qa succeeded and the continuation
\* is the one of qa
C6_Witness ==
  /\ TransitionSucceeded
  /\ last.pre.phase = "execution"
  /\ store.phase = "qa"
  /\ last.result.shouldBlock
  /\ last.result.phase = "qa"

\* C7: when the operation of execution -> qa or of qa -> validation fails,
\* the call leaves the persisted phase and returns block true with the
\* continuation of the phase it found, as a result and not as an error.
C7_CompoundFailureContinues ==
  (/\ Engaged
   /\ BelowCeiling
   /\ ExpectedDetected
   /\ CompoundFailed) =>
    /\ store = [last.pre EXCEPT !.iteration = last.pre.iteration + 1]
    /\ last.result # NullResult
    /\ last.result.shouldBlock
    /\ last.result.phase = last.pre.phase
    /\ last.result.message.kind = "continuation"
    /\ last.result.message.prompt = getPhasePrompt(last.pre.phase)

\* the operation of qa -> validation failed
C7_Witness ==
  /\ Engaged
  /\ BelowCeiling
  /\ ExpectedDetected
  /\ CompoundFailed
  /\ last.pre.phase = "qa"
  /\ store.phase = "qa"
  /\ last.result.shouldBlock

\* C8: the call that takes validation -> complete, and every call that
\* finds the phase complete, returns block false, phase complete and the
\* success notice, never a continuation.
C8_CompleteNeverBlocks ==
  /\ (TransitionSucceeded /\ last.pre.phase = "validation") =>
       /\ last.result = CompleteResult
       /\ store.phase = "complete"
  /\ (Engaged /\ last.pre.phase = "complete") =>
       /\ last.result = CompleteResult
       /\ store = last.pre

\* a call found the phase complete, after a call had taken the run there
C8_Witness ==
  /\ Engaged
  /\ last.pre.phase = "complete"
  /\ last.result = CompleteResult
  /\ "VALIDATION_COMPLETE" \in last.signals

\* the last call returned a result that permits the stop
StopPermitted ==
  /\ last.called
  /\ last.result # NullResult
  /\ ~last.result.shouldBlock
  /\ last.result.phase \in {"complete", "failed"}

\* C9: from an active record, calls of check that are not short-circuited
\* eventually return block false, with phase complete or failed.
C9_EventuallyStops ==
  (store.exists /\ store.active) ~> StopPermitted

\* the ceiling, and not a signal, ended a run that only ever got
\* continuations
C9_Witness ==
  /\ StopPermitted
  /\ last.pre.phase = "expansion"
  /\ last.pre.iteration = MaxIterations
  /\ last.result.phase = "failed"

\* the call took a transition to a working phase
NonFinalTransition ==
  /\ TransitionSucceeded
  /\ last.pre.phase # "validation"

\* the record as persisted by the transition of the last call
Reloaded == [last.pre EXCEPT !.phase = store.phase]

\* a transcript in which exactly the signals of the last call are detected
SameTranscript ==
  [i \in 1..NumCandidates |->
     IF i = 1 THEN Readable(last.signals) ELSE Missing]

\* C10 as stated: after a successful transition to a working phase, the
\* result of the call is the result of the whole decision on the reloaded
\* record.
C10_RerunsDecision ==
  NonFinalTransition =>
    last.result =
      checkAutopilot(Reloaded, last.sessionId, SameTranscript, last.ok).result

\* C10 amended: after a successful transition to a working phase, the
\* result of the call is the plain continuation (step 7) of the reloaded
\* record: the ceiling and the terminal phases are not met again, and the
\* marker of the new phase is not looked for in this call.
C10_ContinuesFromReloaded ==
  NonFinalTransition =>
    /\ last.result = ContinuationResult(
         [Reloaded EXCEPT !.iteration = Reloaded.iteration + 1])
    /\ store = [Reloaded EXCEPT !.iteration = Reloaded.iteration + 1]
    /\ Reloaded.phase # last.pre.phase

\* the transcript held the marker of the new phase too, and the call
\* returned the continuation of the new phase
C10_Witness ==
  /\ NonFinalTransition
  /\ last.pre.phase = "expansion"
  /\ "PLANNING_COMPLETE" \in last.signals
  /\ last.result.shouldBlock
  /\ last.result.phase = "planning"

\* C11 as stated: every call that is not short-circuited (active record,
\* caller not foreign) writes the persisted record exactly once.
C11_EveryBranchWritesOnce ==
  Engaged => last.writes = 1

\* C11 amended: a call that is not short-circuited writes the record once
\* in the forced-failure branch, in the validation -> complete branch and
\* in the plain continuation (also after a failed compound transition),
\* not at all when it finds the phase complete or failed, and twice after
\* a successful transition to a working phase (the transition, then the
\* continuation of the reloaded record).
C11_WritesPerBranch ==
  Engaged =>
    last.writes =
      IF ~BelowCeiling THEN 1
      ELSE IF last.pre.phase \in {"complete", "failed"} THEN 0
      ELSE IF ~ExpectedDetected THEN 1
      ELSE IF last.pre.phase = "validation" THEN (IF last.ok THEN 1 ELSE 0)
      ELSE IF CompoundFailed THEN 1
      ELSE 2

\* a successful transition planning -> execution wrote the record twice
C11_Witness ==
  /\ NonFinalTransition
  /\ last.pre.phase = "planning"
  /\ store.phase = "execution"
  /\ last.writes = 2

\* the last call returned a continuation
Blocked ==
  /\ last.called
  /\ last.result # NullResult
  /\ last.result.shouldBlock

\* C12: a call that returns absent or block false leaves the persisted
\* iteration as it was, and a call that returns block true leaves it
\* exactly 1 greater, the iteration the continuation reports.
C12_IterationOnlyByContinuation ==
  (last.called /\ last.pre.exists) =>
    /\ store.exists
    /\ IF Blocked
       THEN /\ store.iteration = last.pre.iteration + 1
            /\ last.result.metadata.iteration = store.iteration
       ELSE store.iteration = last.pre.iteration

\* the call that took validation -> complete left the iteration at 4
C12_Witness ==
  /\ TransitionSucceeded
  /\ last.pre.phase = "validation"
  /\ store.phase = "complete"
  /\ last.pre.iteration = 4
  /\ store.iteration = 4
  /\ ~Blocked

\* C13: every call returns absent or a result with block, phase and
\* message; no error leaves the call, whatever record load returns,
\* whichever transcript candidates are missing or unreadable and whatever
\* the transition operations report.
C13_NoErrorEscapes ==
  last.called =>
    \/ last.result = NullResult
    \/ /\ last.result # Thrown
       /\ {"shouldBlock", "phase", "message"} \subseteq DOMAIN last.result
       /\ last.result.shouldBlock \in BOOLEAN
       /\ last.result.phase \in Phases
       /\ last.result.message.kind \in
            {"stopped", "complete", "failed", "continuation"}

\* the transcript of the caller had a file that cannot be read, and the
\* marker of the phase in a later candidate; the transition operation
\* reported failure
C13_Witness ==
  /\ Engaged
  /\ BelowCeiling
  /\ last.readError
  /\ ExpectedDetected
  /\ CompoundFailed
  /\ Blocked

\* C14: a call that finds no record, or a record that is not active,
\* returns absent and writes nothing, whatever the session id and the
\* transcript.
C14_InactiveNoEffect ==
  (last.called /\ (~last.pre.exists \/ ~last.pre.active)) =>
    /\ last.result = NullResult
    /\ store = last.pre
    /\ last.writes = 0

\* the session the record is bound to called on a record that is not
\* active, with the marker of the phase in its transcript
C14_Witness ==
  /\ last.called
  /\ last.pre.exists
  /\ ~last.pre.active
  /\ last.pre.session_id = "s1"
  /\ last.sessionId = "s1"
  /\ "EXPANSION_COMPLETE" \in last.signals
  /\ last.result = NullResult
  /\ store = last.pre

\* the spellings of the markers in the texts, whatever their case
Spellings ==
  {<<sig, sig>> : sig \in SIGNAL_PATTERNS}
    \cup {<<"Qa_Complete", "QA_COMPLETE">>,
          <<"execution_complete", "EXECUTION_COMPLETE">>}

\* C15: detectSignal returns true exactly when one of the candidates
\* exists, can be read and contains the marker of the signal in any case;
\* a candidate that is missing or cannot be read is passed over, without an
\* error, and the candidates after it are still looked at.
C15_DetectAnyReadableCandidate ==
  det.called =>
    /\ ~det.threw
    /\ det.result =
         \E i \in 1..NumCandidates :
           /\ det.tr[i].exists
           /\ det.tr[i].readable
           /\ \E w \in det.tr[i].content : <<w, det.signal>> \in Spellings

\* the first candidate holds the marker but cannot be read, the second is
\* missing, the third holds the marker in another case
C15_Witness ==
  /\ det.called
  /\ det.signal = "QA_COMPLETE"
  /\ det.tr[1] = [exists |-> TRUE, readable |-> FALSE,
                  content |-> {"QA_COMPLETE"}]
  /\ det.tr[2] = Missing
  /\ det.tr[3] = Readable({"Qa_Complete"})
  /\ det.result

\* C16: a call of check leaves session_id, originalIdea and
\* max_iterations of the persisted record as it found them, so that after
\* any number of calls they are those of the record the run began with.
C16_BindingIdeaCeilingKept ==
  (last.called /\ last.pre.exists) =>
    /\ store.exists
    /\ store.session_id = last.pre.session_id
    /\ store.originalIdea = last.pre.originalIdea
    /\ store.originalIdea = "idea"
    /\ store.max_iterations = last.pre.max_iterations

\* a call wrote the record twice, for a transition and its continuation,
\* after three calls that had written it
C16_Witness ==
  /\ NonFinalTransition
  /\ last.writes = 2
  /\ last.pre.phase = "qa"
  /\ store.iteration = 4
  /\ store.session_id = "s1"
  /\ store.originalIdea = "idea"

\* C17 as stated: on the call where the phase advances to a working phase,
\* the result is block true for the new phase with iteration 1, the first
\* tick of the new phase.
C17_AdvanceRestartsCount ==
  NonFinalTransition =>
    /\ Blocked
    /\ CanonicalNext(last.pre.phase, last.result.phase)
    /\ last.result.phase = store.phase
    /\ last.result.metadata.iteration = 1

\* C17 amended: on the call where the phase advances to a working phase, the
\* result is block true for the new phase, and its iteration is the one the
\* call found plus 1: the count runs on across the phase boundary.
C17_AdvanceKeepsCount ==
  NonFinalTransition =>
    /\ Blocked
    /\ CanonicalNext(last.pre.phase, last.result.phase)
    /\ last.result.phase = store.phase
    /\ last.result.metadata.iteration = last.pre.iteration + 1
    /\ store.iteration = last.pre.iteration + 1

\* execution at iteration 3 advanced to qa by a successful compound
\* transition: the continuation reports iteration 4
C17_Witness ==
  /\ NonFinalTransition
  /\ last.pre.phase = "execution"
  /\ last.pre.iteration = 3
  /\ last.pre.session_id = "s1"
  /\ last.sessionId = "s1"
  /\ last.ok
  /\ store.phase = "qa"
  /\ last.result.phase = "qa"
  /\ last.result.metadata.iteration = 4

\* C18: a call made without a session id, on an active record in a working
\* phase below the ceiling, takes the plain continuation of the unchanged
\* phase whatever the transcript contains: no signal is detected and the
\* phase does not advance.
C18_NoSessionIdNeverAdvances ==
  (/\ Engaged
   /\ last.sessionId = NoSession
   /\ last.pre.phase \in WorkingPhases
   /\ BelowCeiling) =>
    /\ store = [last.pre EXCEPT !.iteration = last.pre.iteration + 1]
    /\ store.phase = last.pre.phase
    /\ last.result = ContinuationResult(store)
    /\ last.writes = 1

\* a call without a session id on a bound record in planning, while the
\* transcript files hold the marker of planning
C18_Witness ==
  /\ Engaged
  /\ last.sessionId = NoSession
  /\ last.pre.session_id = "s1"
  /\ last.pre.phase = "planning"
  /\ BelowCeiling
  /\ "PLANNING_COMPLETE" \in last.signals
  /\ store.phase = "planning"
  /\ last.result.shouldBlock

\* C19: for every result of check that is not absent, the phase of the
\* result is the persisted phase after the call, the iteration of its
\* metadata, when it has one, is the persisted iteration, and block is true
\* exactly when that phase is a working phase.
C19_ResultAgreesWithRecord ==
  (last.called /\ last.result # NullResult) =>
    /\ store.exists
    /\ last.result.phase = store.phase
    /\ "metadata" \in DOMAIN last.result =>
         last.result.metadata.iteration = store.iteration
    /\ last.result.shouldBlock <=> (last.result.phase \in WorkingPhases)

\* C20: for every working phase P the marker that the continuation message
\* names for P is the expected signal of P, and a call by a session whose
\* transcript holds the marker the message names for the phase found
\* advances that phase (its transition succeeding), for validation as for
\* the other four phases.
C20_MessageNamesExpectedSignal ==
  /\ Blocked =>
       \A p \in WorkingPhases :
         last.result.message.signals[p] = getExpectedSignalForPhase(p)
  /\ (/\ Engaged
      /\ BelowCeiling
      /\ last.pre.phase \in WorkingPhases
      /\ last.sessionId # NoSession
      /\ ContinuationSignals[last.pre.phase] \in last.signals
      /\ last.ok) =>
       store.phase = getNextPhase(last.pre.phase)

\* the record is active in a working phase, below its ceiling
RunningBelowCeiling ==
  /\ store.exists
  /\ store.active
  /\ store.phase \in WorkingPhases
  /\ store.iteration < store.max_iterations

\* the working phases still ahead of phase p
PhasesAhead(p) == 5 - PhaseIndex(p)

\* the ceiling leaves one iteration for each working phase still ahead
CeilingAllowsRun ==
  store.iteration + PhasesAhead(store.phase) < store.max_iterations

\* the persisted record is in phase p
PersistedPhaseIs(p) == store.exists /\ store.phase = p

\* C21 as stated: in a run that always signals and whose transitions all
\* succeed, an active record below its ceiling ends with the persisted phase
\* complete, never failed.
C21_SignalledRunCompletes ==
  RunningBelowCeiling ~> PersistedPhaseIs("complete")

\* C21 amended: in a run that always signals and whose transitions all
\* succeed, an active record ends with the persisted phase complete when
\* its ceiling exceeds its iteration by more than the number of working
\* phases still ahead, each advance counting as one iteration; otherwise it
\* ends with the persisted phase failed.
C21_SignalledRunCompletesWithinCeiling ==
  /\ (RunningBelowCeiling /\ CeilingAllowsRun) ~> PersistedPhaseIs("complete")
  /\ (RunningBelowCeiling /\ ~CeilingAllowsRun) ~> PersistedPhaseIs("failed")
  /\ [](PersistedPhaseIs("complete") => []PersistedPhaseIs("complete"))

\* a run of five calls, ended by the call that found validation at
\* iteration 4
C21_Witness ==
  /\ last.called
  /\ last.pre.exists
  /\ last.pre.phase = "validation"
  /\ last.pre.iteration = 4
  /\ last.pre.max_iterations = 5
  /\ "VALIDATION_COMPLETE" \in last.signals
  /\ store.phase = "complete"
  /\ ~last.result.shouldBlock

\* C22: when the cancel operation deletes the record while a call of check
\* is between its load and its write, or before its reload after a
\* transition, the call does not write the record back: the record is
\* absent after the call returns.
C22_CancelIsFinal ==
  (call.pc = "idle" /\ call.cancelled) => ~store.exists

\* C23: after any sequence of calls of check the persisted iteration is at
\* most max_iterations, and no continuation is returned with an iteration
\* greater than max_iterations.
C23_CeilingNeverOvershot ==
  /\ store.exists => store.iteration <= store.max_iterations
  /\ Blocked =>
       /\ last.result.metadata.iteration <= last.result.metadata.maxIterations
       /\ last.result.metadata.iteration <= store.max_iterations
       /\ last.result.metadata.maxIterations = last.pre.max_iterations

\* the call that advanced the phase also took the iteration to the ceiling
C23_Witness ==
  /\ NonFinalTransition
  /\ Blocked
  /\ last.pre.iteration = 2
  /\ store.iteration = 3
  /\ store.max_iterations = 3
  /\ last.result.metadata.iteration = 3
  /\ store.phase = "qa"

====
